---------------------------- MODULE Spec2Model ----------------------------
(***************************************************************************)
(* A model of diskusage_mac.py: the mount listing is parsed line by line,  *)
(* filtered, measured with statvfs, labelled with diskutil, sorted and     *)
(* printed as an aligned table.  Strings are TLA+ strings, handled with    *)
(* Len, SubSeq and \o as the Python code handles them with len, slices     *)
(* and concatenation.                                                      *)
(***************************************************************************)
EXTENDS Integers, Sequences, FiniteSets, TLC

VARIABLES
    pc,            \* position of the program
    mount_ok,      \* get_rows: whether a call of the mount tool gave a listing
    mount_output,  \* get_rows: the lines of the mount listing
    idx,           \* get_rows: index of the next line of the for loop
    rows,          \* get_rows / main: the rows collected so far
    seen_mps,      \* get_rows: mount paths already accepted
    env,           \* what the OS answered for each line processed
    out,           \* lines printed on standard output
    exit_code,     \* process exit status, -1 while running
    arg,           \* argument of a function called on its own
    ret            \* its result

vars == <<pc, mount_ok, mount_output, idx, rows, seen_mps, env, out, exit_code, arg, ret>>

---------------------------------------------------------------------------
(* Characters and strings *)

\* The printable ASCII characters in code-point order: 32 (space) to 95, and
\* 97 to 126 (the grave accent, 96, cannot be written in a TLA+ string).
AsciiLow == " !\"#$%&'()*+,-./0123456789:;<=>?@ABCDEFGHIJKLMNOPQRSTUVWXYZ[\\]^_"

AsciiHigh == "abcdefghijklmnopqrstuvwxyz{|}~"

Min(a, b) == IF a <= b THEN a ELSE b

Max(a, b) == IF a >= b THEN a ELSE b

\* s[i] of Python, 1-based here.
Char(s, i) == SubSeq(s, i, i)

AsciiChars == {Char(AsciiLow, i) : i \in 1..Len(AsciiLow)}
                \cup {Char(AsciiHigh, i) : i \in 1..Len(AsciiHigh)}

\* ord(c)
OrdTable == [c \in AsciiChars |->
               IF \E i \in 1..Len(AsciiLow) : Char(AsciiLow, i) = c
               THEN 31 + CHOOSE i \in 1..Len(AsciiLow) : Char(AsciiLow, i) = c
               ELSE 96 + CHOOSE i \in 1..Len(AsciiHigh) : Char(AsciiHigh, i) = c]

Ord(c) == IF c = "\t" THEN 9 ELSE OrdTable[c]

\* str.lower() on one character: A-Z (65..90) to a-z (97..122)
LowerTable == [c \in AsciiChars |->
                 IF OrdTable[c] >= 65 /\ OrdTable[c] <= 90
                 THEN Char(AsciiHigh, OrdTable[c] + 32 - 96) ELSE c]

LowerChar(c) == IF c = "\t" THEN c ELSE LowerTable[c]

RECURSIVE LowerFrom(_, _)
LowerFrom(s, i) == IF i > Len(s) THEN "" ELSE LowerChar(Char(s, i)) \o LowerFrom(s, i + 1)

\* str.lower()
Lower(s) == LowerFrom(s, 1)

\* str.startswith(prefix)
StartsWith(s, prefix) == Len(s) >= Len(prefix) /\ SubSeq(s, 1, Len(prefix)) = prefix

\* s[:n]
Take(s, n) == SubSeq(s, 1, Min(n, Len(s)))

RECURSIVE Repeat(_, _)
\* c * n
Repeat(c, n) == IF n <= 0 THEN "" ELSE c \o Repeat(c, n - 1)

\* format(s, "<w>") : left-aligned, padded with spaces, never cut
LJust(s, w) == s \o Repeat(" ", w - Len(s))

\* format(s, "><w>") : right-aligned, padded with spaces, never cut
RJust(s, w) == Repeat(" ", w - Len(s)) \o s

RECURSIVE StrLessFrom(_, _, _)
StrLessFrom(a, b, i) ==
    IF i > Len(a) THEN i <= Len(b)
    ELSE IF i > Len(b) THEN FALSE
    ELSE IF Char(a, i) = Char(b, i) THEN StrLessFrom(a, b, i + 1)
    ELSE Ord(Char(a, i)) < Ord(Char(b, i))

\* a < b on Python strings: by code point, a proper prefix first
StrLess(a, b) == StrLessFrom(a, b, 1)

---------------------------------------------------------------------------
(* LINE_RE: ^(?P<dev>\S+)\s+on\s+(?P<mp>.+?)\s+\((?P<fstype>[^,]+) *)

\* \s on the characters a listing holds
IsSpace(c) == c = " " \/ c = "\t"

RECURSIVE SpaceRunEnd(_, _)
\* The index after the longest run of \s starting at i (i itself if none).
SpaceRunEnd(s, i) ==
    IF i <= Len(s) /\ IsSpace(Char(s, i)) THEN SpaceRunEnd(s, i + 1) ELSE i

RECURSIVE NonSpaceRunEnd(_, _)
\* The index after the longest run of \S starting at i.
NonSpaceRunEnd(s, i) ==
    IF i <= Len(s) /\ ~IsSpace(Char(s, i)) THEN NonSpaceRunEnd(s, i + 1) ELSE i

RECURSIVE NonCommaRunEnd(_, _)
\* The index after the longest run of [^,] starting at i.
NonCommaRunEnd(s, i) ==
    IF i <= Len(s) /\ Char(s, i) # "," THEN NonCommaRunEnd(s, i + 1) ELSE i

\* Whether \s+\((?P<fstype>[^,]+) matches at index e: a run of \s (taken whole,
\* since a shorter run is followed by \s and not by the parenthesis), "(" and
\* at least one character other than a comma.
TailMatchesAt(s, e) ==
    /\ e <= Len(s)
    /\ IsSpace(Char(s, e))
    /\ LET q == SpaceRunEnd(s, e)
       IN  /\ q + 1 <= Len(s)
           /\ Char(s, q) = "("
           /\ Char(s, q + 1) # ","

\* The match of LINE_RE on a line, or a record with matched = FALSE.  \S+ and
\* the \s+ before "on" can only take their whole runs; the \s+ after "on" is
\* greedy and gives characters back one at a time (c from the longest run
\* down); .+? is lazy and ends at the first index where the tail matches.
LineMatch(s) ==
    LET NoMatch == [matched |-> FALSE, dev |-> "", mp |-> "", fstype |-> ""]
        a == NonSpaceRunEnd(s, 1)
        b == SpaceRunEnd(s, a)
        c0 == b + 2
        cmax == SpaceRunEnd(s, c0)
        Ends(st) == {e \in (st + 1)..Len(s) : TailMatchesAt(s, e)}
        Starts == {st \in (c0 + 1)..cmax : Ends(st) # {}}
    IN  IF a = 1 \/ b = a \/ SubSeq(s, b, b + 1) # "on" \/ Starts = {}
        THEN NoMatch
        ELSE LET st == CHOOSE x \in Starts : \A y \in Starts : y <= x
                 e == CHOOSE x \in Ends(st) : \A y \in Ends(st) : x <= y
                 q == SpaceRunEnd(s, e)
             IN  [matched |-> TRUE,
                  dev |-> SubSeq(s, 1, a - 1),
                  mp |-> SubSeq(s, st, e - 1),
                  fstype |-> SubSeq(s, q + 1, NonCommaRunEnd(s, q + 1) - 1)]

---------------------------------------------------------------------------
(* human: a byte count as text.  Byte counts reach 2^64, past TLC's 32-bit  *)
(* integers, so human takes its argument as base-1024 digits, least         *)
(* significant first: the float b after k divisions by 1024 is the digits   *)
(* above position k (the whole part) and the k digits below (the fraction), *)
(* which is exact for every count of at most 53 significant bits.           *)

units == <<"B", "KiB", "MiB", "GiB", "TiB", "PiB">>

RECURSIVE ToDigits(_)
\* The base-1024 digits of an integer n >= 0.
ToDigits(n) == IF n < 1024 THEN <<n>> ELSE <<n % 1024>> \o ToDigits(n \div 1024)

\* b <= 1024 after k divisions
AtMost1024(d, k) ==
    \/ \A i \in (k + 2)..Len(d) : d[i] = 0
    \/ /\ Len(d) >= k + 2
       /\ d[k + 2] = 1
       /\ \A i \in 1..Len(d) : i # k + 2 => d[i] = 0

\* b < 1024 after k divisions
Below1024(d, k) == \A i \in (k + 2)..Len(d) : d[i] = 0

RECURSIVE WholeFrom(_, _)
WholeFrom(d, i) == IF i > Len(d) THEN 0 ELSE d[i] + 1024 * WholeFrom(d, i + 1)

\* int(b) after k divisions
Whole(d, k) == WholeFrom(d, k + 1)

RECURSIVE TimesTen(_, _, _, _)
\* 10 * (the fraction's k digits): the digits of the product and, as carry, the
\* whole tenths.
TimesTen(d, k, i, carry) ==
    IF i > k THEN [carry |-> carry, digits |-> <<>>]
    ELSE LET v == 10 * d[i] + carry
             rest == TimesTen(d, k, i + 1, v \div 1024)
         IN  [carry |-> rest.carry, digits |-> <<v % 1024>> \o rest.digits]

\* f"{b:.1f}" after k >= 1 divisions: the exact value rounded to the nearest
\* tenth, a tie to the even tenth.
OneDecimal(d, k) ==
    LET p == TimesTen(d, k, 1, 0)
        r == p.digits
        lowZero == \A i \in 1..(k - 1) : r[i] = 0
        up == \/ r[k] > 512
              \/ r[k] = 512 /\ ~lowZero
              \/ r[k] = 512 /\ lowZero /\ p.carry % 2 = 1
        t == p.carry + (IF up THEN 1 ELSE 0)
        w == Whole(d, k) + (IF t = 10 THEN 1 ELSE 0)
    IN  ToString(w) \o "." \o ToString(t % 10)

RECURSIVE HumanLoop(_, _)
\* The for loop of human at unit k + 1.
HumanLoop(d, k) ==
    IF Below1024(d, k) \/ units[k + 1] = "PiB"
    THEN IF units[k + 1] = "B"
         THEN ToString(Whole(d, k)) \o " B"
         ELSE OneDecimal(d, k) \o " " \o units[k + 1]
    ELSE HumanLoop(d, k + 1)

human(bytes_) == HumanLoop(bytes_, 0)

---------------------------------------------------------------------------
(* statvfs_row and volume_name *)

\* A float that is the quotient of two integers, kept exact.
Ratio(n, d) == [num |-> n, den |-> d]

\* statvfs_row counting the free blocks as the used ones.
statvfs_row_free_as_used(s) ==
    LET bs == IF s.f_frsize # 0 THEN s.f_frsize ELSE s.f_bsize
        size == s.f_blocks * bs
        used == s.f_bfree * bs
        avail == s.f_bavail * bs
        pct == IF size # 0 THEN Ratio(used * 100, size) ELSE Ratio(0, 1)
    IN  [size |-> size, used |-> used, avail |-> avail, pct |-> pct]

\* statvfs_row on the structure s that os.statvfs returned
statvfs_row(s) ==
    LET bs == IF s.f_frsize # 0 THEN s.f_frsize ELSE s.f_bsize
        size == s.f_blocks * bs
        used == (s.f_blocks - s.f_bfree) * bs
        avail == s.f_bavail * bs
        pct == IF size # 0 THEN Ratio(used * 100, size) ELSE Ratio(0, 1)
    IN  [size |-> size, used |-> used, avail |-> avail, pct |-> pct]

\* f"{pct:6.1f}": the nearest tenth (a tie to even), right-aligned in 6
FormatPct(pct) ==
    LET q == (10 * pct.num) \div pct.den
        r == (10 * pct.num) % pct.den
        t == IF 2 * r > pct.den \/ (2 * r = pct.den /\ q % 2 = 1) THEN q + 1 ELSE q
    IN  RJust(ToString(t \div 10) \o "." \o ToString(t % 10), 6)

\* `except OSError` in its place: FileNotFoundError is an OSError,
\* CalledProcessError and plistlib's InvalidFileException are not.
CaughtOSErrorOnly(exc) == exc \in {"OSError", "FileNotFoundError"}

\* `except Exception` of volume_name: every exception is caught.
CaughtByVolumeName(exc) == TRUE

\* volume_name without `or ""`: a missing VolumeName comes back as None.
volume_name_without_default(reply) ==
    IF reply.kind # "plist" THEN ""
    ELSE IF "VolumeName" \in DOMAIN reply.info THEN reply.info["VolumeName"]
    ELSE "None"

\* volume_name on diskutil's reply: an exception of check_output (the tool is
\* missing, a non-zero exit), bytes plistlib cannot load, or a loaded plist;
\* a caught exception gives "", and so does a missing or empty VolumeName.
volume_name(reply) ==
    IF reply.kind # "plist" THEN ""
    ELSE IF "VolumeName" \in DOMAIN reply.info /\ reply.info["VolumeName"] # ""
    THEN reply.info["VolumeName"]
    ELSE ""

---------------------------------------------------------------------------
(* The machine the program runs on *)

\* The longest mount listing considered.
MaxLines == 3

LOCAL_FS == {"apfs", "hfs", "hfs+"}

\* Lines /sbin/mount can print: local volumes, a path mounted twice, a path
\* with spaces longer than the mount column, an upper-case type, a network
\* mount over a local path, the paths the filter hides, a relative path and a
\* line LINE_RE does not match.
ListingLines ==
    { "/dev/disk3s1s1 on / (apfs, sealed, local, read-only, journaled)",
      "/dev/disk4s2 on /Volumes/Data (hfs, local, journaled)",
      "/dev/disk1000s10s10 on /Volumes/Data (apfs, local, journaled)",
      "//guest@nas/share on /Volumes/Data (smbfs, nodev, nosuid, mounted by user)",
      "/dev/disk5s1 on /Volumes/archive of the old laptop from 2019 backups (APFS, local)",
      "/dev/disk3s6 on /System/Volumes/VM (apfs, local, noexec, journaled, nobrowse)",
      "/dev/disk6s1 on /Volumes/.timemachine/snap (apfs, local, read-only)",
      "/dev/disk7s1 on backup (hfs+, local)",
      "map auto_home on /System/Volumes/Data/home (autofs, automounted, nobrowse)" }

RECURSIVE SeqsUpTo(_, _)
\* The sequences over S of length at most n.
SeqsUpTo(S, n) ==
    IF n = 0 THEN {<<>>}
    ELSE LET shorter == SeqsUpTo(S, n - 1)
         IN  shorter \cup {Append(q, x) : q \in shorter, x \in S}

\* What os.statvfs returns for a path when it succeeds.  A file system
\* reports no more free blocks than blocks, and no more blocks available to
\* users than free blocks.
Statvfs(frsize, bsize, blocks, bfree, bavail) ==
    [f_frsize |-> frsize, f_bsize |-> bsize, f_blocks |-> blocks,
     f_bfree |-> bfree, f_bavail |-> bavail]

VolumeStat(mp) ==
    CASE mp = "/" -> Statvfs(4096, 1048576, 4, 1, 1)
      [] mp = "/Volumes/Data" -> Statvfs(0, 512, 6, 3, 2)
      [] OTHER -> Statvfs(4096, 4096, 0, 0, 0)

\* The name diskutil knows a device by.
VolumeLabel(dev) ==
    CASE dev = "/dev/disk3s1s1" -> "Macintosh HD"
      [] dev = "/dev/disk4s2" -> "Data"
      [] dev = "/dev/disk5s1" -> "Archive of the old laptop, 2019"
      [] OTHER -> "Untitled"

\* What `diskutil info -plist dev` can come to: the tool is missing
\* (FileNotFoundError), it exits non-zero (CalledProcessError), its output is
\* no plist (InvalidFileException), or a plist without a VolumeName, with an
\* empty one, with a name.
DiskutilReplies(dev) ==
    { [kind |-> "FileNotFoundError", info |-> <<>>],
      [kind |-> "CalledProcessError", info |-> <<>>],
      [kind |-> "InvalidFileException", info |-> <<>>],
      [kind |-> "plist", info |-> [DeviceNode |-> dev]],
      [kind |-> "plist", info |-> [DeviceNode |-> dev, VolumeName |-> ""]],
      [kind |-> "plist", info |-> [DeviceNode |-> dev, VolumeName |-> VolumeLabel(dev)]] }

\* How the log names diskutil's reply.
LabelCase(reply) ==
    IF reply.kind # "plist" THEN reply.kind
    ELSE IF "VolumeName" \notin DOMAIN reply.info THEN "absent"
    ELSE IF reply.info["VolumeName"] = "" THEN "empty"
    ELSE "named"

AllLabelCases ==
    {"FileNotFoundError", "CalledProcessError", "InvalidFileException",
     "absent", "empty", "named"}

\* The log of one pass of the loop: what the OS answered ("unasked" where the
\* pass left before asking) and whether the pass appended a row.
Answers(exists, stat, label, row) ==
    [exists |-> exists, stat |-> stat, label |-> label, row |-> row]

---------------------------------------------------------------------------
(* get_rows *)

\* `except ValueError` in its place.
CaughtValueErrorOnly(exc) == exc = "ValueError"

\* `except OSError` around statvfs_row.
CaughtByGetRows(exc) == exc = "OSError"

\* The duplicate check left out.
NeverSeen(mp, seen) == FALSE

\* `mp in seen_mps`
AlreadySeen(mp, seen) == mp \in seen

\* The filter without the line that hides /System.
PassesFilterShowingSystem(m) ==
    /\ m.matched
    /\ Lower(m.fstype) \in LOCAL_FS
    /\ StartsWith(m.mp, "/")
    /\ ~StartsWith(m.mp, "/Volumes/.time")

\* The filter on a parsed line, up to the check that the path exists.
PassesFilter(m) ==
    /\ m.matched
    /\ Lower(m.fstype) \in LOCAL_FS
    /\ StartsWith(m.mp, "/")
    /\ ~StartsWith(m.mp, "/System/")
    /\ ~StartsWith(m.mp, "/Volumes/.time")

Row(dev, name, mp, st) ==
    [dev |-> dev, name |-> name, mp |-> mp,
     size |-> st.size, used |-> st.used, avail |-> st.avail, pct |-> st.pct]

\* key=lambda r: r[2]
SortKeyCaseSensitive(r) == r.mp

\* key=lambda r: r[2].lower()
SortKey(r) == Lower(r.mp)

RECURSIVE InsertRow(_, _)
\* r placed after the rows whose key is not greater: the sort is stable.
InsertRow(sorted, r) ==
    IF sorted = <<>> THEN <<r>>
    ELSE IF StrLess(SortKey(r), SortKey(Head(sorted))) THEN <<r>> \o sorted
    ELSE <<Head(sorted)>> \o InsertRow(Tail(sorted), r)

RECURSIVE SortRows(_)
\* rows.sort(key=...)
SortRows(rs) ==
    IF rs = <<>> THEN <<>>
    ELSE InsertRow(SortRows(SubSeq(rs, 1, Len(rs) - 1)), rs[Len(rs)])

\* The for loop is at line idx of the listing.
InLoop == pc = "loop" /\ idx <= Len(mount_output)

\* `continue`: on to the next line, with what the OS answered noted.
Continue(answers) ==
    /\ idx' = idx + 1
    /\ env' = Append(env, answers)
    /\ UNCHANGED <<pc, mount_ok, mount_output, out, exit_code, arg, ret>>

\* An exception nothing catches: the interpreter prints the traceback on
\* standard error and exits with status 1.
Crash ==
    /\ pc' = "done"
    /\ exit_code' = 1

\* get_rows, lines 52-58: the listing comes from /sbin/mount or, when that
\* file is missing, from mount on the PATH; any other failure of the first
\* call, and any failure of the second, is not caught.  The listing's lines
\* are drawn from `lines`.
GetMountOutput(lines) ==
    /\ pc = "start"
    /\ UNCHANGED <<idx, rows, seen_mps, env, out, arg, ret>>
    /\ \/ \E listing \in SeqsUpTo(lines, MaxLines) :   \* /sbin/mount answers
             /\ mount_ok' = TRUE
             /\ mount_output' = listing
             /\ pc' = "loop"
             /\ UNCHANGED exit_code
       \/ \E listing \in SeqsUpTo(lines, MaxLines) :   \* no /sbin/mount, mount answers
             /\ mount_ok' = TRUE
             /\ mount_output' = listing
             /\ pc' = "loop"
             /\ UNCHANGED exit_code
       \/ /\ UNCHANGED <<mount_ok, mount_output>>       \* no /sbin/mount, mount fails
          /\ Crash
       \/ /\ UNCHANGED <<mount_ok, mount_output>>       \* /sbin/mount fails otherwise
          /\ Crash

\* LINE_RE.match on each line a listing can hold, matched once.
Matches == [line \in ListingLines |-> LineMatch(line)]

\* Whether each of those lines passes the filter.
Passes == [line \in ListingLines |-> PassesFilter(Matches[line])]

\* get_rows, lines 60-89: one pass of the for loop; diskutil's reply is one
\* of the cases in `cases`.
LoopBody(cases) ==
    /\ InLoop
    /\ LET line == mount_output[idx]
           m == Matches[line]
       IN  \/ /\ ~Passes[line]                             \* lines 62-75
              /\ Continue(Answers("unasked", "unasked", "unasked", FALSE))
              /\ UNCHANGED <<rows, seen_mps>>
           \/ /\ Passes[line]                              \* line 76
              /\ Continue(Answers("no", "unasked", "unasked", FALSE))
              /\ UNCHANGED <<rows, seen_mps>>
           \/ /\ Passes[line]                              \* line 78
              /\ AlreadySeen(m.mp, seen_mps)
              /\ Continue(Answers("yes", "unasked", "unasked", FALSE))
              /\ UNCHANGED <<rows, seen_mps>>
           \/ /\ Passes[line]                              \* lines 81-86
              /\ ~AlreadySeen(m.mp, seen_mps)
              /\ seen_mps' = seen_mps \cup {m.mp}
              /\ UNCHANGED rows
              /\ IF CaughtByGetRows("OSError")
                 THEN Continue(Answers("yes", "OSError", "unasked", FALSE))
                 ELSE /\ Crash
                      /\ env' = Append(env, Answers("yes", "OSError", "unasked", FALSE))
                      /\ UNCHANGED <<mount_ok, mount_output, idx, out, arg, ret>>
           \/ /\ Passes[line]                              \* lines 81-89
              /\ ~AlreadySeen(m.mp, seen_mps)
              /\ seen_mps' = seen_mps \cup {m.mp}
              /\ \E reply \in DiskutilReplies(m.dev) :
                    /\ LabelCase(reply) \in cases
                    /\ IF reply.kind = "plist" \/ CaughtByVolumeName(reply.kind)
                       THEN /\ rows' = Append(rows, Row(m.dev, volume_name(reply), m.mp,
                                                        statvfs_row(VolumeStat(m.mp))))
                            /\ Continue(Answers("yes", "ok", LabelCase(reply), TRUE))
                       ELSE /\ Crash
                            /\ env' = Append(env, Answers("yes", "ok", LabelCase(reply), FALSE))
                            /\ UNCHANGED <<mount_ok, mount_output, idx, rows, out, arg, ret>>

\* get_rows, lines 91-92: after the last line the rows are sorted and returned.
GetRowsReturn ==
    /\ pc = "loop"
    /\ idx > Len(mount_output)
    /\ rows' = SortRows(rows)
    /\ pc' = "main"
    /\ UNCHANGED <<mount_ok, mount_output, idx, seen_mps, env, out, exit_code, arg, ret>>

---------------------------------------------------------------------------
(* main *)

RECURSIVE MaxLen(_, _)
\* max([start] + [len(x) for x in cells])
MaxLen(start, cells) ==
    IF cells = <<>> THEN start ELSE MaxLen(Max(start, Len(Head(cells))), Tail(cells))

Column(rs, field) == [i \in 1..Len(rs) |-> rs[i][field]]

dev_w(rs) == Min(MaxLen(Len("Device"), Column(rs, "dev")), 18)

name_w(rs) == Min(MaxLen(Len("Volume name"), Column(rs, "name")), 24)

mp_w(rs) == Min(MaxLen(Len("Mount"), Column(rs, "mp")), 40)

header(rs) ==
    LJust("Device", dev_w(rs)) \o "  " \o LJust("Volume name", name_w(rs)) \o "  "
    \o LJust("Mount", mp_w(rs)) \o "  " \o RJust("Total", 12) \o "  "
    \o RJust("Used", 12) \o "  " \o RJust("Free", 12) \o "  " \o RJust("Use%", 6)

sep(rs) ==
    LJust(Repeat("-", dev_w(rs)), dev_w(rs)) \o "  "
    \o LJust(Repeat("-", name_w(rs)), name_w(rs)) \o "  "
    \o LJust(Repeat("-", mp_w(rs)), mp_w(rs)) \o "  " \o RJust(Repeat("-", 12), 12) \o "  "
    \o RJust(Repeat("-", 12), 12) \o "  " \o RJust(Repeat("-", 12), 12) \o "  "
    \o RJust(Repeat("-", 6), 6)

\* The three text cells of a row's line.
DevCell(r, rs) == LJust(r.dev, dev_w(rs))

NameCell(r, rs) == LJust(Take(r.name, name_w(rs)), name_w(rs))

MpCell(r, rs) == LJust(Take(r.mp, mp_w(rs)), mp_w(rs))

RowLine(r, rs) ==
    DevCell(r, rs) \o "  " \o NameCell(r, rs) \o "  " \o MpCell(r, rs) \o "  "
    \o RJust(human(ToDigits(r.size)), 12) \o "  " \o RJust(human(ToDigits(r.used)), 12)
    \o "  " \o RJust(human(ToDigits(r.avail)), 12) \o "  " \o FormatPct(r.pct) \o "%"

\* main without the notice for an empty report.
PrintedWithoutNotice(rs) ==
    <<header(rs), sep(rs)>> \o [i \in 1..Len(rs) |-> RowLine(rs[i], rs)]

\* Everything main prints, in order.
Printed(rs) ==
    <<header(rs), sep(rs)>>
    \o [i \in 1..Len(rs) |-> RowLine(rs[i], rs)]
    \o (IF rs = <<>> THEN <<"(no local APFS/HFS mounts found)">> ELSE <<>>)

\* main, lines 97-121, and sys.exit(main()).
Main ==
    /\ pc = "main"
    /\ out' = Printed(rows)
    /\ exit_code' = 0
    /\ pc' = "done"
    /\ UNCHANGED <<mount_ok, mount_output, idx, rows, seen_mps, env, arg, ret>>

---------------------------------------------------------------------------
(* The program *)

Init ==
    /\ pc = "start"
    /\ mount_ok = FALSE
    /\ mount_output = <<>>
    /\ idx = 1
    /\ rows = <<>>
    /\ seen_mps = {}
    /\ env = <<>>
    /\ out = <<>>
    /\ exit_code = -1      \* no exit status yet
    /\ arg = <<>>
    /\ ret = ""

\* The whole program on every kind of line, diskutil failing in one way.
Next ==
    \/ GetMountOutput(ListingLines)
    \/ LoopBody({"CalledProcessError", "named"})
    \/ GetRowsReturn
    \/ Main

Spec == Init /\ [][Next]_vars

\* The lines label resolution is followed on.
LabelLines ==
    { "/dev/disk3s1s1 on / (apfs, sealed, local, read-only, journaled)",
      "/dev/disk4s2 on /Volumes/Data (hfs, local, journaled)",
      "/dev/disk3s6 on /System/Volumes/VM (apfs, local, noexec, journaled, nobrowse)" }

\* The whole program on those lines, diskutil failing in every way.
NextLabels ==
    \/ GetMountOutput(LabelLines)
    \/ LoopBody(AllLabelCases)
    \/ GetRowsReturn
    \/ Main

SpecLabels == Init /\ [][NextLabels]_vars

---------------------------------------------------------------------------
(* human and statvfs_row called on their own *)

\* The longest digit string given to human: 1024^7 is past 2^64.
MaxDigits == 7

\* Digits around the places where a tenth rounds: 51/1024 < 0.05 < 52/1024,
\* 256/1024 and 768/1024 are ties, 1023/1024 rounds up to the next unit.
DigitValues == {0, 1, 51, 52, 256, 512, 768, 1023}

\* Byte counts of up to MaxDigits digits whose digits below the top three
\* are zero: at most 30 significant bits, so float(bytes_) is exact.
HumanInputs ==
    {<<0>>} \cup
    { [i \in 1..n |-> IF i = n THEN top
                      ELSE IF i = n - 1 THEN mid
                      ELSE IF i = n - 2 THEN low ELSE 0] :
        n \in 1..MaxDigits, top \in DigitValues \ {0}, mid \in DigitValues,
        low \in DigitValues }

\* The most blocks a file system reports.
MaxBlocks == 4

\* What os.statvfs can return: f_frsize may be 0, and then f_bsize counts;
\* free blocks are among the blocks, available blocks among the free ones.
StatvfsResults ==
    { s \in [f_frsize : {0, 512, 4096}, f_bsize : {512, 4096, 1048576},
             f_blocks : 0..MaxBlocks, f_bfree : 0..MaxBlocks, f_bavail : 0..MaxBlocks] :
        s.f_bavail <= s.f_bfree /\ s.f_bfree <= s.f_blocks }

Idle ==
    /\ mount_ok = FALSE
    /\ mount_output = <<>>
    /\ idx = 1
    /\ rows = <<>>
    /\ seen_mps = {}
    /\ env = <<>>
    /\ out = <<>>
    /\ exit_code = -1

Return(value) ==
    /\ ret' = value
    /\ pc' = "returned"
    /\ UNCHANGED <<mount_ok, mount_output, idx, rows, seen_mps, env, out, exit_code, arg>>

InitHuman == Idle /\ pc = "human" /\ arg \in HumanInputs /\ ret = ""

CallHuman == pc = "human" /\ Return(human(arg))

SpecHuman == InitHuman /\ [][CallHuman]_vars

InitStat == Idle /\ pc = "statvfs_row" /\ arg \in StatvfsResults /\ ret = ""

CallStatvfsRow == pc = "statvfs_row" /\ Return(statvfs_row(arg))

SpecStat == InitStat /\ [][CallStatvfsRow]_vars

---------------------------------------------------------------------------
(* Properties *)

\* get_rows has returned its rows to main.
Returned == pc \in {"main", "done"} /\ mount_ok /\ exit_code # 1

\* The program has ended.
Ended == pc = "done"

\* The parsed entry of line k of the listing.
Entry(k) == Matches[mount_output[k]]

\* The filter as the documentation states it, for each line of a listing: the
\* lower-cased type is apfs, hfs or hfs+, the path is absolute and lies
\* neither under /System/ nor under /Volumes/.time.
Excluded(mp) == StartsWith(mp, "/System/") \/ StartsWith(mp, "/Volumes/.time")

Allowed ==
    [line \in ListingLines |->
        LET m == Matches[line]
        IN  /\ m.matched
            /\ Lower(m.fstype) \in {"apfs", "hfs", "hfs+"}
            /\ SubSeq(m.mp, 1, 1) = "/"
            /\ ~Excluded(m.mp)]

\* Line k passed the filter and its path existed when the loop asked.
Accepted(k) == Allowed[mount_output[k]] /\ env[k].exists = "yes"

SamePath(j, k) == Entry(j).matched /\ Entry(k).matched /\ Entry(j).mp = Entry(k).mp

NoTwoRowsShareAPath == \A i, j \in 1..Len(rows) : i # j => rows[i].mp # rows[j].mp

\* Row i was made from line k.
RowOf(i, k) == rows[i].dev = Entry(k).dev /\ rows[i].mp = Entry(k).mp

\* C1 as stated: no two rows share a mount path, and among the entries of the
\* listing with one mount path only the first ever produces a row.
C1_OnlyFirstEntryOfAPathRetained ==
    Returned =>
        /\ NoTwoRowsShareAPath
        /\ \A k \in 1..Len(env) :
              env[k].row => \A j \in 1..(k - 1) : ~SamePath(j, k)

\* C1 amended: no two rows share a mount path, and among the entries with one
\* mount path only the first that passes the type and path filters and whose
\* path exists can produce a row; every row carries that entry's device.
C1_OnlyFirstAcceptedEntryRetained ==
    Returned =>
        /\ NoTwoRowsShareAPath
        /\ \A k \in 1..Len(env) :
              env[k].row =>
                 /\ Accepted(k)
                 /\ \A j \in 1..(k - 1) : ~(Accepted(j) /\ SamePath(j, k))
        /\ \A i \in 1..Len(rows) : \E k \in 1..Len(env) : env[k].row /\ RowOf(i, k)

\* Two accepted entries with one path and two devices, the first one's row kept.
C1_Witness ==
    /\ Returned
    /\ \E j, k \in 1..Len(env) :
          /\ j < k
          /\ Accepted(j) /\ Accepted(k) /\ SamePath(j, k)
          /\ Entry(j).dev # Entry(k).dev
          /\ env[j].row
          /\ \E i \in 1..Len(rows) : RowOf(i, j)

\* C2: a line produces a row only if its type is allowed, its path is
\* absolute, not under an excluded prefix and exists; a line under an excluded
\* prefix never does; a line with an allowed type that passes the path checks
\* and is the first with its path is measured, and is included when the
\* statistics query succeeds.
C2_FilterDecidesInclusion ==
    \A k \in 1..Len(env) :
        LET m == Entry(k)
            e == env[k]
        IN  /\ e.row => Allowed[mount_output[k]] /\ e.exists = "yes"
            /\ m.matched /\ Excluded(m.mp) => ~e.row
            /\ Allowed[mount_output[k]] => e.exists # "unasked"
            /\ (Accepted(k) /\ \A j \in 1..(k - 1) : ~SamePath(j, k)) => e.stat # "unasked"
            /\ e.stat = "ok" => e.row
            /\ (Returned /\ e.row) => \E i \in 1..Len(rows) : RowOf(i, k)

\* An allowed line made a row while an apfs line under /System made none.
C2_Witness ==
    /\ Returned
    /\ \E j, k \in 1..Len(env) :
          /\ env[j].row
          /\ Entry(k).matched
          /\ Lower(Entry(k).fstype) = "apfs"
          /\ StartsWith(Entry(k).mp, "/System/")
          /\ ~env[k].row

\* C3: when the statistics query fails for a mount that passed the filter,
\* that mount gets no row, every line is still processed, every entry whose
\* query succeeded is in the report, and the run ends with exit code 0.
C3_StatFailureSkipsOneMount ==
    (Ended /\ \E k \in 1..Len(env) : env[k].stat = "OSError") =>
        /\ exit_code = 0
        /\ Len(env) = Len(mount_output)
        /\ \A k \in 1..Len(env) :
              /\ env[k].stat = "OSError" => \A i \in 1..Len(rows) : rows[i].mp # Entry(k).mp
              /\ env[k].stat = "ok" => \E i \in 1..Len(rows) : RowOf(i, k)
        /\ Len(out) = 2 + Len(rows) + (IF rows = <<>> THEN 1 ELSE 0)

\* A failed query on one line, a row from a later one.
C3_Witness ==
    /\ Ended
    /\ \E j, k \in 1..Len(env) : j < k /\ env[j].stat = "OSError" /\ env[k].row
    /\ Len(rows) >= 1

\* C4 as stated: with no rows the program prints the notice alone, without
\* header or separator, and exits with code 0.
C4_NoticeInsteadOfTable ==
    (Ended /\ mount_ok /\ rows = <<>>) =>
        /\ out = <<"(no local APFS/HFS mounts found)">>
        /\ exit_code = 0

\* C4 amended: with no rows the program prints the header row, the separator
\* row and then the notice, and exits with code 0.
C4_NoticeUnderEmptyTable ==
    (Ended /\ mount_ok /\ rows = <<>>) =>
        /\ out = << "Device  Volume name  Mount         Total          Used          Free    Use%",
                    "------  -----------  -----  ------------  ------------  ------------  ------",
                    "(no local APFS/HFS mounts found)" >>
        /\ exit_code = 0

\* A listing whose lines were all filtered out, reported.
C4_Witness == Ended /\ mount_ok /\ rows = <<>> /\ Len(mount_output) >= 2 /\ Len(out) = 3

\* C5: the exit code is non-zero exactly when no mount listing was obtained.
C5_ExitCodeZeroIffListingObtained ==
    Ended => /\ exit_code \in {0, 1}
             /\ exit_code # 0 <=> ~mount_ok

\* A run with an unparsable line, a failed statistics query and a failed label
\* lookup that still exits with 0.
C5_Witness ==
    /\ Ended
    /\ exit_code = 0
    /\ \E k \in 1..Len(env) : ~Entry(k).matched
    /\ \E k \in 1..Len(env) : env[k].stat = "OSError"
    /\ \E k \in 1..Len(env) : env[k].label = "CalledProcessError"

\* The listing of the end-to-end scenario, in any order.
ScenarioLines ==
    { "/dev/disk3s1s1 on / (apfs, sealed, local, read-only, journaled)",
      "/dev/disk4s2 on /Volumes/Data (hfs, local, journaled)",
      "/dev/disk3s6 on /System/Volumes/VM (apfs, local, noexec, journaled, nobrowse)" }

\* C6: the rows are in ascending order of lower-cased mount path, and the
\* scenario's listing yields "/" and then "/Volumes/Data".
C6_RowsSortedByLowerCasedPath ==
    Returned =>
        /\ \A i \in 1..(Len(rows) - 1) :
              ~StrLess(Lower(rows[i + 1].mp), Lower(rows[i].mp))
        /\ ( /\ Len(mount_output) = 3
             /\ {mount_output[k] : k \in 1..3} = ScenarioLines
             /\ \A k \in 1..3 : Allowed[mount_output[k]] => env[k].stat = "ok" )
           => Column(rows, "mp") = <<"/", "/Volumes/Data">>

\* Three rows listed in descending order and reported in ascending order, the
\* lower-case path before the upper-case one.
C6_Witness ==
    /\ Ended
    /\ Len(rows) = 3
    /\ \A k \in 1..3 : RowOf(4 - k, k)
    /\ rows[1].mp = "/"
    /\ rows[3].mp = "/Volumes/Data"

\* The width of a column as documented: the widest of the heading and the
\* cells, capped.
ColumnWidth(heading, cells, cap) ==
    LET widths == {Len(heading)} \cup {Len(cells[i]) : i \in 1..Len(cells)}
        widest == CHOOSE w \in widths : \A v \in widths : v <= w
    IN  IF widest <= cap THEN widest ELSE cap

\* A cell of exactly w characters: cut to w, padded to w.
CellOfWidth(text, w) ==
    LET cut == IF Len(text) > w THEN SubSeq(text, 1, w) ELSE text
    IN  cut \o Repeat(" ", w - Len(cut))

\* C7: in every data row the device, label and mount cells fill exactly their
\* columns (18, 24 and 40 at most), so the row is as wide as the header and
\* the separator ask.
C7_CellsFitTheirColumns ==
    (Ended /\ exit_code = 0) =>
        LET wd == ColumnWidth("Device", Column(rows, "dev"), 18)
            wn == ColumnWidth("Volume name", Column(rows, "name"), 24)
            wm == ColumnWidth("Mount", Column(rows, "mp"), 40)
        IN  \A i \in 1..Len(rows) :
               /\ SubSeq(out[i + 2], 1, wd + wn + wm + 6) =
                     CellOfWidth(rows[i].dev, wd) \o "  " \o CellOfWidth(rows[i].name, wn)
                     \o "  " \o CellOfWidth(rows[i].mp, wm) \o "  "
               /\ Len(out[i + 2]) = Len(out[2]) + 1

\* The cases in which label resolution fails.
FailedLabelCases ==
    {"FileNotFoundError", "CalledProcessError", "InvalidFileException", "absent", "empty"}

\* C8: whenever label resolution fails, volume_name gives "", the mount's row
\* is kept with an empty label, and the run still exits with 0.
C8_FailedLabelKeepsRow ==
    /\ \A k \in 1..Len(env) : env[k].label \in FailedLabelCases => env[k].row
    /\ Returned =>
          \A k \in 1..Len(env) :
             env[k].label \in FailedLabelCases =>
                \E i \in 1..Len(rows) : RowOf(i, k) /\ rows[i].name = ""
    /\ (Ended /\ mount_ok) => exit_code = 0
    /\ (Ended /\ mount_ok) => Len(out) = 2 + Len(rows) + (IF rows = <<>> THEN 1 ELSE 0)

\* A missing tool on one line, a plist without VolumeName on another: two
\* rows, both with an empty label, both printed.
C8_Witness ==
    /\ Ended
    /\ \E j, k \in 1..Len(env) :
          /\ env[j].label = "FileNotFoundError"
          /\ env[k].label = "absent"
    /\ Len(rows) = 2
    /\ rows[1].name = "" /\ rows[2].name = ""
    /\ Len(out) = 4

\* C9: totalBytes = totalBlocks * blockSize, usedBytes = (totalBlocks -
\* freeBlocks) * blockSize, usedPercent = usedBytes / totalBytes * 100 lies in
\* [0, 100] when totalBytes > 0 and is 0 when totalBytes = 0.
C9_UsedPercentInRange ==
    pc = "returned" =>
        LET bs == IF arg.f_frsize = 0 THEN arg.f_bsize ELSE arg.f_frsize
        IN  /\ ret.size = arg.f_blocks * bs
            /\ ret.used = (arg.f_blocks - arg.f_bfree) * bs
            /\ ret.pct.den > 0
            /\ ret.size > 0 =>
                  /\ ret.pct.num = 100 * ret.used /\ ret.pct.den = ret.size
                  /\ 0 <= ret.pct.num /\ ret.pct.num <= 100 * ret.pct.den
            /\ ret.size = 0 => ret.pct.num = 0

\* A volume that reports f_frsize = 0 and is partly used.
C9_Witness ==
    /\ pc = "returned"
    /\ arg.f_frsize = 0
    /\ ret.used > 0 /\ ret.used < ret.size
    /\ ret.pct.num > 0 /\ ret.pct.num < 100 * ret.pct.den

\* The number of the first unit in which the count is under 1024, PiB (6) at
\* the latest; digits holds no leading zero.
UnitOf(digits) == IF Len(digits) <= 6 THEN Len(digits) ELSE 6

\* C10: human names the first unit in which the value is under 1024 (PiB at
\* the latest), writes bytes as an integer and every larger unit with one
\* decimal, and gives '0 B', '1023 B', '1.0 KiB', '1.5 KiB', '1.0 GiB'.
C10_HumanUnitAndDecimals ==
    pc = "returned" =>
        LET u == UnitOf(arg)
            w == Whole(arg, u - 1)
            name == <<"B", "KiB", "MiB", "GiB", "TiB", "PiB">>[u]
        IN  /\ u = 1 => ret = ToString(arg[1]) \o " B"
            /\ u > 1 => \E a \in {w, w + 1}, t \in 0..9 :
                           ret = ToString(a) \o "." \o ToString(t) \o " " \o name
            /\ arg = <<0>> => ret = "0 B"
            /\ arg = <<1023>> => ret = "1023 B"
            /\ arg = <<0, 1>> => ret = "1.0 KiB"
            /\ arg = <<512, 1>> => ret = "1.5 KiB"
            /\ arg = <<0, 0, 0, 1>> => ret = "1.0 GiB"

\* A count of 1024 PiB or more, which no unit brings under 1024.
C10_Witness ==
    /\ pc = "returned"
    /\ Len(arg) = 7
    /\ ret = "1024.0 PiB"

=============================================================================
